---- MODULE Spec2Model ----
(***************************************************************************)
(* A model of Streamlit_app.py: the naming-convention rule engine          *)
(* (check_column_parts, validate_abbreviation_usage, validate_class_word,  *)
(* capitalize_english_name, generate_sample_data) and the batch loop of    *)
(* validate_data_dictionary with its two external collaborators.           *)
(*                                                                         *)
(* A Python str is a sequence of one-character strings; a fixed message of *)
(* the program is a sequence holding the message as one fragment, so that  *)
(* concatenation and join are the same operations on both.                 *)
(***************************************************************************)
EXTENDS Integers, Sequences, FiniteSets, TLC

VARIABLES
    dicts,       \* the arguments class_words and abbreviations of the run
    iterated,    \* the rows of df the loop has taken so far
    results,     \* the list results
    advisorLog,  \* the requests made to call_openai_suggestion
    statuses,    \* validation_status of each row taken (empty when not reached)
    pc,          \* "loop", "raised" or "returned"
    err,         \* where the run raised
    call         \* the last direct call of a function: its arguments and result

vars == <<dicts, iterated, results, advisorLog, statuses, pc, err, call>>

(***************************************************************************)
(* Bounds of the model.                                                    *)
(***************************************************************************)
\* rows of the data frame iterated in one batch run
MaxRows == 2
\* length of the strings the pure functions are applied to
MaxLen == 4
\* number of entries of a "samples" list the sample collaborator may return
MaxSamples == 4

(***************************************************************************)
(* Characters and the str methods the program uses.                        *)
(***************************************************************************)
UC == <<"A","B","C","D","E","F","G","H","I","J","K","L","M",
        "N","O","P","Q","R","S","T","U","V","W","X","Y","Z">>
LC == <<"a","b","c","d","e","f","g","h","i","j","k","l","m",
        "n","o","p","q","r","s","t","u","v","w","x","y","z">>

Range26(t) == {t[i] : i \in 1..26}

\* U+0131, LATIN SMALL LETTER DOTLESS I: lower-case, and its upper case is "I"
DotlessI == "i_dotless"
NL == "\n"
Digits == {"0","1","2","3","4","5","6","7","8","9"}
Whitespace == {" ", NL}

\* str.lower() and str.upper() on one character
LowerMap == [c \in Range26(UC) |-> LC[CHOOSE i \in 1..26 : UC[i] = c]]
UpperMap == [c \in Range26(LC) |-> UC[CHOOSE i \in 1..26 : LC[i] = c]]

lowerChar(c) == IF c \in DOMAIN LowerMap THEN LowerMap[c] ELSE c

upperChar(c) ==
    IF c = DotlessI THEN "I"
    ELSE IF c \in DOMAIN UpperMap THEN UpperMap[c] ELSE c

lower(s) == [i \in 1..Len(s) |-> lowerChar(s[i])]
upper(s) == [i \in 1..Len(s) |-> upperChar(s[i])]

\* str.capitalize(): the first character upper-cased, the rest lower-cased
capitalize(w) ==
    IF w = <<>> THEN <<>>
    ELSE <<upperChar(w[1])>> \o lower(Tail(w))

RECURSIVE lstrip(_)
lstrip(s) ==
    IF s # <<>> /\ Head(s) \in Whitespace THEN lstrip(Tail(s)) ELSE s

RECURSIVE rstrip(_)
rstrip(s) ==
    IF s # <<>> /\ s[Len(s)] \in Whitespace
    THEN rstrip(SubSeq(s, 1, Len(s) - 1))
    ELSE s

\* str.strip()
strip(s) == rstrip(lstrip(s))

\* str.split(sep) for a one-character sep: the parts, empty ones included;
\* the empty string gives one empty part
RECURSIVE splitOn(_, _, _)
splitOn(s, sep, cur) ==
    IF s = <<>> THEN <<cur>>
    ELSE IF Head(s) = sep
         THEN <<cur>> \o splitOn(Tail(s), sep, <<>>)
         ELSE splitOn(Tail(s), sep, Append(cur, Head(s)))

split(s, sep) == splitOn(s, sep, <<>>)

\* str.split() with no argument: the runs of non-whitespace characters
RECURSIVE splitWords(_, _)
splitWords(s, cur) ==
    IF s = <<>> THEN (IF cur = <<>> THEN <<>> ELSE <<cur>>)
    ELSE IF Head(s) \in Whitespace
         THEN (IF cur = <<>> THEN <<>> ELSE <<cur>>) \o splitWords(Tail(s), <<>>)
         ELSE splitWords(Tail(s), Append(cur, Head(s)))

split_ws(s) == splitWords(s, <<>>)

\* sep.join(list)
RECURSIVE join(_, _)
join(sep, list) ==
    IF list = <<>> THEN <<>>
    ELSE IF Len(list) = 1 THEN list[1]
         ELSE list[1] \o sep \o join(sep, Tail(list))

startswith(s, p) == Len(p) <= Len(s) /\ SubSeq(s, 1, Len(p)) = p
endswith(s, p) == Len(p) <= Len(s) /\ SubSeq(s, Len(s) - Len(p) + 1, Len(s)) = p

\* sub in s
contains(s, sub) ==
    \E i \in 1..(Len(s) - Len(sub) + 1) : SubSeq(s, i, i + Len(sub) - 1) = sub

\* s[:n]
prefix(s, n) == SubSeq(s, 1, IF Len(s) < n THEN Len(s) ELSE n)

Range(f) == {f[i] : i \in DOMAIN f}

\* [x for x in list if x in keep], as a sequence
RECURSIVE filterSeq(_, _)
filterSeq(list, keep) ==
    IF list = <<>> THEN <<>>
    ELSE (IF Head(list) \in keep THEN <<Head(list)>> ELSE <<>>)
         \o filterSeq(Tail(list), keep)

\* the orders in which a Python set may be iterated: every sequence that
\* holds each element once
Orders(S) ==
    {o \in [1..Cardinality(S) -> S] : \A x \in S : \E i \in DOMAIN o : o[i] = x}

(***************************************************************************)
(* String constants of the program.                                        *)
(***************************************************************************)
dt_VARCHAR == <<"V","A","R","C","H","A","R">>
dt_VARCHAR2 == <<"V","A","R","C","H","A","R","2">>
dt_TEXT == <<"T","E","X","T">>
dt_INT == <<"I","N","T">>
dt_BIGINT == <<"B","I","G","I","N","T">>
dt_NUMBER == <<"N","U","M","B","E","R">>
dt_NUMERIC == <<"N","U","M","E","R","I","C">>
dt_DECIMAL == <<"D","E","C","I","M","A","L">>
dt_FLOAT == <<"F","L","O","A","T">>
dt_DATE == <<"D","A","T","E">>
dt_DATETIME == <<"D","A","T","E","T","I","M","E">>
dt_TIMESTAMP == <<"T","I","M","E","S","T","A","M","P">>
dt_TIME == <<"T","I","M","E">>
dt_BOOLEAN == <<"B","O","O","L","E","A","N">>
dt_CHAR == <<"C","H","A","R">>

TXT == <<"T","X","T">>
NAM == <<"N","A","M">>
CDE == <<"C","D","E">>
DTE == <<"D","T","E">>
TME == <<"T","M","E">>
IDN == <<"I","D","N">>
NBR == <<"N","B","R">>
AMT == <<"A","M","T">>
CNT == <<"C","N","T">>
IND == <<"I","N","D">>

PASS == <<"PASS">>
FAIL == <<"FAIL">>
Valid == <<"Valid">>
NA == <<"N/A">>
NoCorrections == <<"No corrections needed.">>
TableRule ==
    <<"Table name must start with 'T' and end with {'FACT','DIM','STG','RPTNG'}.">>
CapitalizationNote == <<"Capitalization issue in English Name.">>

\* the dictionary built in validate_data_dictionary
class_word_type_map ==
    (TXT :> <<dt_VARCHAR, dt_VARCHAR2, dt_TEXT>>) @@
    (NAM :> <<dt_VARCHAR, dt_VARCHAR2, dt_TEXT>>) @@
    (CDE :> <<dt_INT, dt_BIGINT, dt_VARCHAR, dt_VARCHAR2, dt_NUMBER>>) @@
    (DTE :> <<dt_DATE, dt_DATETIME, dt_TIMESTAMP>>) @@
    (TME :> <<dt_TIME, dt_DATETIME, dt_TIMESTAMP>>) @@
    (IDN :> <<dt_INT, dt_BIGINT, dt_NUMBER>>) @@
    (NBR :> <<dt_INT, dt_BIGINT, dt_NUMBER>>) @@
    (AMT :> <<dt_DECIMAL, dt_FLOAT, dt_NUMERIC, dt_NUMBER>>) @@
    (CNT :> <<dt_INT, dt_BIGINT, dt_NUMBER>>) @@
    (IND :> <<dt_BOOLEAN, dt_CHAR, dt_VARCHAR, dt_VARCHAR2>>)

\* dict.get(key, default)
dictGet(d, key, default) == IF key \in DOMAIN d THEN d[key] ELSE default

(***************************************************************************)
(* check_column_parts and validate_abbreviation_usage.                     *)
(* abbreviations is a function from NAME to ABBR; order is the order in    *)
(* which the set column_parts is iterated.                                 *)
(***************************************************************************)
\* re.match(r"^\d+$", value): one or more digits; "$" also matches just
\* before a newline that ends the string
is_number(value) ==
    LET body == IF value # <<>> /\ value[Len(value)] = NL
                THEN SubSeq(value, 1, Len(value) - 1)
                ELSE value
    IN  body # <<>> /\ \A i \in 1..Len(body) : body[i] \in Digits

column_parts_of(column_name) == Range(split(column_name, "_"))

approved_terms_of(abbreviations, class_words, english_name) ==
    DOMAIN abbreviations \cup Range(abbreviations) \cup Range(class_words)
        \cup Range(split_ws(english_name))

check_column_parts(column_name, abbreviations, english_name, class_words, order) ==
    LET approved_terms == approved_terms_of(abbreviations, class_words, english_name)
    IN  filterSeq(order, {part \in column_parts_of(column_name) :
                             part \notin approved_terms /\ ~is_number(part)})

validate_abbreviation_usage(column_name, abbreviations, class_words, english_name, order) ==
    LET approved_terms == approved_terms_of(abbreviations, class_words, english_name)
        unrecognized_parts ==
            filterSeq(order, {part \in column_parts_of(column_name) :
                                 part \notin approved_terms /\ ~is_number(part)})
    IN  [unrecognized_parts |-> unrecognized_parts,
         missing_terms |-> <<>>,
         suggested_replacements |-> <<>>]

(***************************************************************************)
(* validate_class_word                                                     *)
(***************************************************************************)
\* the class word taken from the end of the column name
validate_class_word_suffix(column_name, data_type, english_name, type_map) ==
    LET class_word == SubSeq(column_name, Len(column_name) - 2, Len(column_name))
        expected_types == dictGet(type_map, class_word, <<>>)
    IN  IF data_type \notin Range(expected_types)
        THEN [Validation_Status |-> FAIL,
              Class_Word_Issue |->
                  <<"Class word '">> \o class_word
                  \o <<"' does not match expected data type '">> \o data_type
                  \o <<"'.">>,
              Suggested_Class_Word |->
                  IF contains(lower(english_name), <<"t","e","x","t">>) THEN TXT ELSE IND]
        ELSE [Validation_Status |-> PASS,
              Class_Word_Issue |-> Valid,
              Suggested_Class_Word |-> <<>>]

\* "text" looked for in the English name as given, not lower-cased
validate_class_word_cased(column_name, data_type, english_name, type_map) ==
    LET class_word == prefix(column_name, 3)
        expected_types == dictGet(type_map, class_word, <<>>)
    IN  IF data_type \notin Range(expected_types)
        THEN [Validation_Status |-> FAIL,
              Class_Word_Issue |->
                  <<"Class word '">> \o class_word
                  \o <<"' does not match expected data type '">> \o data_type
                  \o <<"'.">>,
              Suggested_Class_Word |->
                  IF contains(english_name, <<"t","e","x","t">>) THEN TXT ELSE IND]
        ELSE [Validation_Status |-> PASS,
              Class_Word_Issue |-> Valid,
              Suggested_Class_Word |-> <<>>]

validate_class_word(column_name, data_type, english_name, type_map) ==
    LET class_word == prefix(column_name, 3)
        expected_types == dictGet(type_map, class_word, <<>>)
    IN  IF data_type \notin Range(expected_types)
        THEN [Validation_Status |-> FAIL,
              Class_Word_Issue |->
                  <<"Class word '">> \o class_word
                  \o <<"' does not match expected data type '">> \o data_type
                  \o <<"'.">>,
              Suggested_Class_Word |->
                  IF contains(lower(english_name), <<"t","e","x","t">>) THEN TXT ELSE IND]
        ELSE [Validation_Status |-> PASS,
              Class_Word_Issue |-> Valid,
              Suggested_Class_Word |-> <<>>]

(***************************************************************************)
(* capitalize_english_name and highlight_incorrect_capitalization, on a    *)
(* str (validate_data_dictionary passes str(...).strip()).                 *)
(***************************************************************************)
allowed_words ==
    {<<"i","n">>, <<"o","f">>, <<"t","h","e">>, <<"a","n","d">>, <<"t","o">>,
     <<"f","o","r">>, <<"w","i","t","h">>, <<"a","t">>, <<"b","y">>,
     <<"f","r","o","m">>, <<"o","n">>, <<"o","r">>}

\* the words joined with no space between them
capitalize_english_name_unspaced(english_name) ==
    LET words == split_ws(english_name)
        capitalized_words ==
            [i \in 1..Len(words) |->
                IF i = 1 \/ lower(words[i]) \notin allowed_words
                THEN capitalize(words[i])
                ELSE lower(words[i])]
    IN  join(<<>>, capitalized_words)

capitalize_english_name(english_name) ==
    LET words == split_ws(english_name)
        capitalized_words ==
            [i \in 1..Len(words) |->
                IF i = 1 \/ lower(words[i]) \notin allowed_words
                THEN capitalize(words[i])
                ELSE lower(words[i])]
    IN  join(<<" ">>, capitalized_words)

\* the note (second component) of highlight_incorrect_capitalization
highlight_incorrect_capitalization(val) ==
    IF strip(val) = <<>> THEN <<>>
    ELSE IF val # capitalize_english_name(val) THEN CapitalizationNote
         ELSE <<>>

(***************************************************************************)
(* The sample-generation collaborator and generate_sample_data.            *)
(* smp is what the chat-completion call does: it fails, or its content is  *)
(* not JSON or has no "samples" key (kind "error"); or the content is JSON *)
(* whose "samples" is a list of any length (kind "list") or something that *)
(* is no list, here a number (kind "number").                              *)
(***************************************************************************)
DIG == <<"0","1","2","3","4","5","6","7","8","9">>

\* str(n) for an int n
RECURSIVE natStr(_)
natStr(n) == IF n < 10 THEN <<DIG[n + 1]>> ELSE natStr(n \div 10) \o <<DIG[(n % 10) + 1]>>

intStr(n) == IF n < 0 THEN <<"-">> \o natStr(-n) ELSE natStr(n)

Example(i) == <<"example">> \o natStr(i)

SampleOutcomes ==
    {[kind |-> "error", items |-> <<>>], [kind |-> "number", items |-> <<>>]}
    \cup {[kind |-> "list", items |-> [i \in 1..k |-> Example(i)]] : k \in 0..MaxSamples}

ErrorSamples == << <<"Error: ", "str(e)">>, NA, NA >>

\* what the function returns: a list (isList, items) or another JSON value
call_openai_for_sample_data(column_name, description, precision, scale, smp) ==
    IF smp.kind = "error" THEN [isList |-> TRUE, items |-> ErrorSamples]
    ELSE [isList |-> smp.kind = "list", items |-> smp.items]

\* the largest n with 10**n a float: random.uniform raises OverflowError past it
FloatMaxExp == 308

\* a sample made by a rule is random: it is modelled by the format it is written in
DateSample == <<"%Y-%m-%d">>
IdSample == <<"I", "D", "randint(1000, 9999)">>
MoneySample(scale) == <<"$", "uniform(10, 10000):.">> \o intStr(scale) \o <<"f">>
DecimalSample(precision, scale) ==
    <<"uniform(10**">> \o intStr(precision - scale - 1) \o <<", 10**">>
    \o intStr(precision - scale) \o <<"):.">> \o intStr(scale) \o <<"f">>
IntSample(precision) ==
    IF precision # 0 THEN <<"randint(10**">> \o intStr(precision - 1) \o <<", 10**">>
                          \o intStr(precision) \o <<"-1)">>
    ELSE <<"randint(1, 9999)">>

Three(x) == <<x, x, x>>

Raised == [raised |-> TRUE, isList |-> FALSE, items |-> <<>>]
Returned(isList, items) == [raised |-> FALSE, isList |-> isList, items |-> items]

generate_sample_data(data_type, precision, scale, column_name, description, smp) ==
    LET column_name_lower == lower(column_name)
        has(word) == contains(column_name_lower, word)
    IN  IF has(<<"d","a","t","e">>) \/ has(<<"d","o","b">>) \/ has(<<"b","i","r","t","h">>)
        THEN Returned(TRUE, Three(DateSample))
        ELSE IF has(<<"i","d">>) \/ has(<<"c","o","d","e">>) \/ has(<<"r","e","f">>)
        THEN Returned(TRUE, Three(IdSample))
        ELSE IF has(<<"p","r","i","c","e">>) \/ has(<<"a","m","o","u","n","t">>)
                \/ has(<<"c","o","s","t">>)
        THEN \* a negative precision in a format specification: ValueError
             IF scale < 0 THEN Raised
             ELSE Returned(TRUE, Three(MoneySample(scale)))
        ELSE IF startswith(data_type, dt_DECIMAL) \/ startswith(data_type, dt_FLOAT)
        THEN \* 10**n is a float for n < 0; uniform overflows on a huge int bound
             IF scale < 0 \/ precision - scale > FloatMaxExp THEN Raised
             ELSE Returned(TRUE, Three(DecimalSample(precision, scale)))
        ELSE IF startswith(data_type, dt_INT) \/ startswith(data_type, dt_BIGINT)
        THEN \* 10**(precision-1) is a float for precision < 0: randint raises
             IF precision < 0 THEN Raised
             ELSE Returned(TRUE, Three(IntSample(precision)))
        ELSE LET samples == call_openai_for_sample_data(column_name, description,
                                                        precision, scale, smp)
             IN  IF samples.isList /\ samples.items = <<>>
                 THEN Returned(TRUE, Three(NA))
                 ELSE Returned(samples.isList, samples.items)

(***************************************************************************)
(* The CorrectionAdvisor: call_openai_suggestion (the second definition,   *)
(* which replaces the first).  adv is what the chat-completion call does:  *)
(* it fails or its content is not JSON (kind "error"), or the content is a *)
(* JSON object (kind "dict", obj) or another JSON value (kind "other").    *)
(***************************************************************************)
NewTable == <<"NEW_TABLE_NAME">>
NewColumn == <<"NEW_COLUMN_NAME">>
NewNotes == <<"Explain any significant changes made.">>

FullAnswer ==
    ("Suggested Table Name" :> NewTable) @@ ("Suggested Column Name" :> NewColumn)
    @@ ("Additional Notes" :> NewNotes)

\* an object without the three keys, which states a verdict of its own
VerdictAnswer == ("Validation Status" :> PASS) @@ ("Notes" :> Valid)

NoAnswer == ("Error" :> <<"str(e)">>)

AdvisorOutcomes ==
    {[kind |-> "error", obj |-> NoAnswer],
     [kind |-> "other", obj |-> NoAnswer],
     [kind |-> "dict", obj |-> FullAnswer],
     [kind |-> "dict", obj |-> VerdictAnswer]}

\* the value returned: a dict (isDict, obj) or another JSON value
call_openai_suggestion(table_name, column_name, english_name, table_failure_reason, column_failure_reason, rules_text, adv) ==
    IF adv.kind = "error"
    THEN [isDict |-> TRUE,
          obj |-> ("Suggested Table Name" :> table_name)
                  @@ ("Suggested Column Name" :> column_name)
                  @@ ("Additional Notes" :> NA) @@ ("Error" :> <<"str(e)">>)]
    ELSE [isDict |-> adv.kind = "dict", obj |-> adv.obj]

(***************************************************************************)
(* A row of the data frame: each cell is a str, a number, NaN (an empty    *)
(* cell) or absent (the frame has no such column).                         *)
(***************************************************************************)
StrCell(s) == [t |-> "str", s |-> s, n |-> 0]
IntCell(n) == [t |-> "int", s |-> <<>>, n |-> n]
NaNCell == [t |-> "nan", s |-> <<>>, n |-> 0]
AbsentCell == [t |-> "absent", s |-> <<>>, n |-> 0]

\* str(row.get(key, ''))
pyStr(cell) ==
    CASE cell.t = "str" -> cell.s
      [] cell.t = "int" -> intStr(cell.n)
      [] cell.t = "nan" -> <<"n","a","n">>
      [] OTHER -> <<>>

\* pd.notna(row.get(key))
notna(cell) == cell.t \notin {"nan", "absent"}

RECURSIVE digitsValue(_)
digitsValue(d) ==
    IF d = <<>> THEN 0
    ELSE 10 * digitsValue(SubSeq(d, 1, Len(d) - 1))
         + (CHOOSE k \in 0..9 : DIG[k + 1] = d[Len(d)])

\* int(x): [ok, n]; not ok is ValueError
pyInt(cell) ==
    IF cell.t = "int" THEN [ok |-> TRUE, n |-> cell.n]
    ELSE LET text == strip(cell.s)
             neg == text # <<>> /\ Head(text) = "-"
             signed == text # <<>> /\ Head(text) \in {"-", "+"}
             d == IF signed THEN Tail(text) ELSE text
         IN  IF cell.t = "str" /\ d # <<>> /\ \A i \in 1..Len(d) : d[i] \in Digits
             THEN [ok |-> TRUE, n |-> IF neg THEN -digitsValue(d) ELSE digitsValue(d)]
             ELSE [ok |-> FALSE, n |-> 0]

\* int(row.get(key, 0)) if pd.notna(row.get(key)) else 0
intOrZero(cell) == IF notna(cell) THEN pyInt(cell) ELSE [ok |-> TRUE, n |-> 0]

(***************************************************************************)
(* One iteration of the loop of validate_data_dictionary.                  *)
(* order: the iteration order of the set of column parts; smp, adv: what   *)
(* the two collaborators do; rules_ok: whether domain_rules.txt can be     *)
(* read.  The result says where the iteration raised ("" when it did       *)
(* not), whether the CorrectionAdvisor was requested, and the record       *)
(* appended to results (none when it raised).                              *)
(***************************************************************************)
table_valid_of(table_name) ==
    startswith(table_name, <<"T">>)
    /\ (\/ endswith(table_name, <<"F","A","C","T">>)
        \/ endswith(table_name, <<"D","I","M">>)
        \/ endswith(table_name, <<"S","T","G">>)
        \/ endswith(table_name, <<"R","P","T","N","G">>))

table_failure_reason_of(table_name) ==
    IF ~table_valid_of(table_name) THEN TableRule ELSE <<>>

\* the missing parts kept as they are, already flagged or not
filtered_missing_parts_unfiltered(missing_parts, issues) == missing_parts

\* line 461: [part for part in missing_parts if part not in issues["unrecognized_parts"]]
filtered_missing_parts_of(missing_parts, issues) ==
    filterSeq(missing_parts,
              Range(missing_parts) \ Range(issues.unrecognized_parts))

\* failure_reasons, from the three column checks
failure_reasons_of(class_word_validation, missing_parts, issues) ==
    LET filtered_missing_parts == filtered_missing_parts_of(missing_parts, issues)
    IN  (IF class_word_validation.Validation_Status = FAIL
         THEN <<class_word_validation.Class_Word_Issue>> ELSE <<>>)
        \o (IF filtered_missing_parts # <<>>
            THEN << <<"Column name is missing or incorrect for: ">>
                    \o join(<<", ">>, filtered_missing_parts) >>
            ELSE <<>>)
        \o (IF issues.unrecognized_parts # <<>>
            THEN << <<"Unrecognized abbreviation(s): ">>
                    \o join(<<", ">>, issues.unrecognized_parts)
                    \o <<" are not in the approved list.">> >>
            ELSE <<>>)

\* a status that forgets the table-name check
validation_status_without_table(failure_reasons, table_failure_reason) ==
    IF failure_reasons = <<>> THEN PASS ELSE FAIL

validation_status_of(failure_reasons, table_failure_reason) ==
    IF failure_reasons = <<>> /\ table_failure_reason = <<>> THEN PASS ELSE FAIL

\* the Notes field: "Valid" if PASS else column_failure_reason or table_failure_reason
notes_of(validation_status, column_failure_reason, table_failure_reason) ==
    IF validation_status = PASS THEN Valid
    ELSE IF column_failure_reason # <<>> THEN column_failure_reason
         ELSE table_failure_reason

\* status is validation_status, empty when the pass raised before line 470
Outcome(site, status, requested, records) ==
    [raised |-> site, status |-> status, requested |-> requested,
     records |-> records]

\* lines 424-431: the cells of the row, normalized and coerced
normalize_row(row) ==
    [table_name |-> upper(strip(pyStr(row.Table_Name))),
     column_name |-> upper(strip(pyStr(row.Column_Name))),
     english_name |-> upper(strip(pyStr(row.English_Name))),
     english_name1 |-> strip(pyStr(row.English_Name)),
     data_type |-> upper(strip(pyStr(row.Data_Type))),
     precision |-> intOrZero(row.Precision),
     scale |-> intOrZero(row.Scale),
     description |-> strip(pyStr(row.Description))]

\* lines 435-470: the checks of the row and its status
verdict_of(n, class_words, abbreviations, order) ==
    LET table_failure_reason == table_failure_reason_of(n.table_name)
        missing_parts ==
            check_column_parts(n.column_name, abbreviations, n.english_name,
                               class_words, order)
        issues ==
            validate_abbreviation_usage(n.column_name, abbreviations, class_words,
                                        n.english_name, order)
        class_word_validation ==
            validate_class_word(n.column_name, n.data_type, n.english_name,
                                class_word_type_map)
        failure_reasons == failure_reasons_of(class_word_validation, missing_parts, issues)
    IN  [table_failure_reason |-> table_failure_reason,
         missing_parts |-> missing_parts,
         issues |-> issues,
         filtered_missing_parts |-> filtered_missing_parts_of(missing_parts, issues),
         class_word_validation |-> class_word_validation,
         failure_reasons |-> failure_reasons,
         column_failure_reason |-> join(<<"; ">>, failure_reasons),
         validation_status |->
             validation_status_of(failure_reasons, table_failure_reason),
         capitalization_issue |-> highlight_incorrect_capitalization(n.english_name1)]

\* lines 474-513: the suggestion fields and the fields of the record
record_fields(n, v, sample_data_records, openai_suggestion) ==
    LET failed == v.validation_status = FAIL
        column_failure_reason ==
            IF v.capitalization_issue # <<>>
            THEN v.column_failure_reason \o <<" ">> \o v.capitalization_issue
            ELSE v.column_failure_reason
    IN  [Table_Name |-> n.table_name,
         Column_Name |-> n.column_name,
         English_Name |-> n.english_name1,
         Data_Type |-> n.data_type,
         Precision |-> n.precision.n,
         Scale |-> n.scale.n,
         Validation_Status |-> v.validation_status,
         Notes |-> notes_of(v.validation_status, column_failure_reason,
                            v.table_failure_reason),
         Suggested_Table_Name |->
             IF failed
             THEN dictGet(openai_suggestion.obj, "Suggested Table Name", n.table_name)
             ELSE <<>>,
         Suggested_Column_Name |->
             IF failed
             THEN dictGet(openai_suggestion.obj, "Suggested Column Name", n.column_name)
             ELSE <<>>,
         Suggested_Class_Word |-> v.class_word_validation.Suggested_Class_Word,
         Additional_Notes |->
             IF failed
             THEN dictGet(openai_suggestion.obj, "Additional Notes", NA)
             ELSE NoCorrections,
         Corrected_Description |-> n.description,
         Sample_Data_1 |-> sample_data_records.items[1],
         Sample_Data_2 |-> sample_data_records.items[2],
         Sample_Data_3 |-> sample_data_records.items[3]]

\* a record that takes a verdict from the advisor's answer when it states one
result_record_trusting_advisor(n, v, sample_data_records, openai_suggestion) ==
    [record_fields(n, v, sample_data_records, openai_suggestion) EXCEPT
        !.Validation_Status = dictGet(openai_suggestion.obj, "Validation Status", @),
        !.Notes = dictGet(openai_suggestion.obj, "Notes", @)]

\* results.append({...})
result_record(n, v, sample_data_records, openai_suggestion) ==
    record_fields(n, v, sample_data_records, openai_suggestion)

\* the advisor requested for every row
advisor_always_wanted(validation_status) == TRUE

\* whether the pass requests the CorrectionAdvisor (line 474)
advisor_wanted(validation_status) == validation_status = FAIL

\* lines 472-513: the samples, the suggestion and the record, given the
\* normalized row n and its verdict v
finish_row(n, v, smp, adv, rules_ok) ==
    LET sample_data_records ==
            generate_sample_data(n.data_type, n.precision.n, n.scale.n, n.column_name,
                                 n.description, smp)
        openai_suggestion ==
            call_openai_suggestion(n.table_name, n.column_name, n.english_name,
                                   v.table_failure_reason, v.column_failure_reason,
                                   <<"domain_rules.txt">>, adv)
        failed == advisor_wanted(v.validation_status)
        status == v.validation_status
    IN  IF ~n.precision.ok THEN Outcome("int(Precision)", <<>>, FALSE, <<>>)
        ELSE IF ~n.scale.ok THEN Outcome("int(Scale)", <<>>, FALSE, <<>>)
        ELSE IF sample_data_records.raised
        THEN Outcome("generate_sample_data", status, FALSE, <<>>)
        ELSE IF failed /\ ~rules_ok THEN Outcome("load_domain_rules", status, FALSE, <<>>)
        ELSE IF failed /\ ~openai_suggestion.isDict
        THEN Outcome("openai_suggestion.get", status, TRUE, <<>>)
        ELSE IF ~sample_data_records.isList \/ Len(sample_data_records.items) < 3
        THEN Outcome("sample_data_records[i]", status, failed, <<>>)
        ELSE Outcome("", status, failed,
                     <<result_record(n, v, sample_data_records, openai_suggestion)>>)

validate_row(row, class_words, abbreviations, order, smp, adv, rules_ok) ==
    LET n == normalize_row(row)
    IN  finish_row(n, verdict_of(n, class_words, abbreviations, order),
                   smp, adv, rules_ok)

(***************************************************************************)
(* Inputs of the batch run.                                                *)
(***************************************************************************)
s_T_SLS_ORD_FACT == <<"T","_","S","L","S","_","O","R","D","_","F","A","C","T">>
s_SLS_ORDER_FACT == <<"S","L","S","_","O","R","D","E","R","_","F","A","C","T">>
s_t_cus_dim == <<" ","t","_","c","u","s","_","d","i","m">>
s_ORD_DTE == <<"O","R","D","_","D","T","E">>
s_DTE_ORD == <<"D","T","E","_","O","R","D">>
s_CUS_NAM == <<"C","U","S","_","N","A","M">>
s_ORD_XYZ_AMT == <<"O","R","D","_","X","Y","Z","_","A","M","T">>
s_AMT_ORD_1 == <<"A","M","T","_","O","R","D","_","1">>
s_DTE_ORDER_DATE == <<"D","T","E","_","O","R","D","E","R","_","D","A","T","E">>
s_AMT_COST == <<"A","M","T","_","C","O","S","T">>
s_CNT_ORD == <<"C","N","T","_","O","R","D">>
s_Order_Date == <<"O","r","d","e","r"," ","D","a","t","e">>
s_order_date == <<"o","r","d","e","r"," ","d","a","t","e">>
s_Customer_Number == <<"C","u","s","t","o","m","e","r"," ","N","u","m","b","e","r">>
s_Order_Text == <<"O","r","d","e","r"," ","T","e","x","t">>
s_Cost_of_Order == <<"C","o","s","t"," ","o","f"," ","O","r","d","e","r">>
s_ORDER == <<"O","R","D","E","R">>
s_ORD == <<"O","R","D">>
s_SALES == <<"S","A","L","E","S">>
s_SLS == <<"S","L","S">>
s_CUSTOMER == <<"C","U","S","T","O","M","E","R">>
s_CUS == <<"C","U","S">>
s_CUS_IDN == <<"C","U","S","_","I","D","N">>
s_T_ORD == <<"T","_","O","R","D">>
s_abc == <<"a","b","c">>
s_12 == <<" ","1","2">>
s_rule == <<"D","a","t","e"," ","o","f"," ","t","h","e"," ","o","r","d","e","r">>

\* the vocabularies of the scenario of the specification's section 8
ScenarioDicts ==
    [abbreviations |-> (s_ORDER :> s_ORD) @@ (s_SALES :> s_SLS),
     class_words |-> <<DTE>>]

\* the reference vocabularies (class_words, abbreviations) of a run
DictChoices ==
    {ScenarioDicts,
     [abbreviations |-> (s_ORDER :> s_ORD) @@ (s_CUSTOMER :> s_CUS),
      class_words |-> <<DTE, NAM, AMT, CNT>>]}

Row(table, column, english, type, precision, scale, description) ==
    [Table_Name |-> table, Column_Name |-> column, English_Name |-> english,
     Data_Type |-> type, Precision |-> precision, Scale |-> scale,
     Description |-> description]

\* the scenario row of the specification's section 8
ScenarioRow ==
    Row(StrCell(s_T_SLS_ORD_FACT), StrCell(s_ORD_DTE), StrCell(s_Order_Date),
        StrCell(dt_DATE), NaNCell, NaNCell, StrCell(<<>>))

WellFormedRows ==
    {ScenarioRow,
     Row(StrCell(s_T_SLS_ORD_FACT), StrCell(s_DTE_ORD), StrCell(s_Order_Date),
         StrCell(dt_DATE), NaNCell, NaNCell, StrCell(s_rule)),
     Row(StrCell(s_SLS_ORDER_FACT), StrCell(s_DTE_ORD), StrCell(s_order_date),
         StrCell(dt_DATE), IntCell(0), IntCell(0), StrCell(s_rule)),
     Row(StrCell(s_t_cus_dim), StrCell(s_CUS_NAM), StrCell(s_Customer_Number),
         StrCell(dt_INT), IntCell(2), IntCell(0), AbsentCell),
     Row(StrCell(s_T_SLS_ORD_FACT), StrCell(s_ORD_XYZ_AMT), StrCell(s_Order_Text),
         StrCell(dt_DECIMAL), IntCell(2), IntCell(2), StrCell(<<>>)),
     Row(StrCell(s_T_SLS_ORD_FACT), StrCell(s_DTE_ORDER_DATE), StrCell(s_Order_Date),
         StrCell(dt_DATE), AbsentCell, AbsentCell, StrCell(<<>>)),
     Row(StrCell(s_T_SLS_ORD_FACT), StrCell(s_CNT_ORD), StrCell(s_Order_Text),
         StrCell(dt_INT), StrCell(s_12), IntCell(0), StrCell(s_rule))}

\* rows with malformed cells: text or a negative number where a number is
\* expected, an empty cell or a number where the description is expected
MalformedRows ==
    {Row(StrCell(s_T_SLS_ORD_FACT), StrCell(s_DTE_ORD), StrCell(s_Order_Date),
         StrCell(dt_DATE), StrCell(s_abc), IntCell(0), StrCell(s_rule)),
     Row(StrCell(s_T_SLS_ORD_FACT), StrCell(s_DTE_ORD), StrCell(s_Order_Date),
         StrCell(dt_DATE), IntCell(0), StrCell(s_abc), StrCell(s_rule)),
     Row(StrCell(s_T_SLS_ORD_FACT), StrCell(s_DTE_ORD), StrCell(s_Order_Date),
         StrCell(dt_DATE), IntCell(0), IntCell(0), NaNCell),
     Row(StrCell(s_T_SLS_ORD_FACT), StrCell(s_DTE_ORD), StrCell(s_Order_Date),
         StrCell(dt_DATE), IntCell(0), IntCell(0), IntCell(5)),
     Row(StrCell(s_T_SLS_ORD_FACT), StrCell(s_AMT_COST), StrCell(s_Cost_of_Order),
         StrCell(dt_DECIMAL), IntCell(2), IntCell(-1), StrCell(<<>>))}

Rows == WellFormedRows \cup MalformedRows

(***************************************************************************)
(* The batch run: validate_data_dictionary(df, class_words, abbreviations) *)
(***************************************************************************)
NoCall == [fn |-> "none"]

Init ==
    /\ dicts \in DictChoices
    /\ iterated = <<>>
    /\ results = <<>>
    /\ advisorLog = <<>>
    /\ statuses = <<>>
    /\ pc = "loop"
    /\ err = ""
    /\ call = NoCall

\* what one pass of the loop can do with a row, over every iteration order
\* of the set of column parts and everything the collaborators can do
RowOutcomes ==
    [d \in DictChoices, row \in Rows |->
        LET n == normalize_row(row)
        IN  UNION {{finish_row(n, verdict_of(n, d.class_words, d.abbreviations, order),
                               smp, adv, rules_ok) :
                        smp \in SampleOutcomes, adv \in AdvisorOutcomes,
                        rules_ok \in BOOLEAN} :
                   order \in Orders(column_parts_of(n.column_name))}]

\* one pass of "for _, row in df.iterrows()": the next row of df is any row
Iterate ==
    /\ pc = "loop"
    /\ Len(iterated) < MaxRows
    /\ \E row \in Rows :
         \E out \in RowOutcomes[dicts, row] :
            /\ iterated' = Append(iterated, row)
            /\ results' = results \o out.records
            /\ statuses' = Append(statuses, out.status)
            /\ advisorLog' = IF out.requested
                             THEN Append(advisorLog, Len(iterated) + 1)
                             ELSE advisorLog
            /\ pc' = IF out.raised = "" THEN "loop" ELSE "raised"
            /\ err' = out.raised
    /\ UNCHANGED <<dicts, call>>

\* "return pd.DataFrame(results)" once df is exhausted
Return ==
    /\ pc = "loop"
    /\ pc' = "returned"
    /\ UNCHANGED <<dicts, iterated, results, advisorLog, statuses, err, call>>

Next == Iterate \/ Return

Spec == Init /\ [][Next]_vars

(***************************************************************************)
(* Direct calls of the functions, on inputs drawn from bounded sets.       *)
(***************************************************************************)
Strings(alphabet, n) == UNION {[1..k -> alphabet] : k \in 0..n}

\* column names made of a letter, a digit, the delimiter and a newline
PartAlphabet == {"A", "1", "_", NL}
PartAbbreviations == {<<>>, (<<"A">> :> <<"A","A">>)}
PartClassWords == {<<>>, << <<"1","A">> >>}
PartEnglishNames == {<<>>, <<"A"," ","A","1">>}

CallCheckColumnParts ==
    /\ call = NoCall
    /\ \E column_name \in Strings(PartAlphabet, MaxLen),
       abbreviations \in PartAbbreviations,
       class_words \in PartClassWords,
       english_name \in PartEnglishNames :
       \E order \in Orders(column_parts_of(column_name)) :
          /\ call' = [fn |-> "check_column_parts",
                      column_name |-> column_name,
                      abbreviations |-> abbreviations,
                      class_words |-> class_words,
                      english_name |-> english_name,
                      result |-> check_column_parts(column_name, abbreviations,
                                                    english_name, class_words, order)]
          /\ UNCHANGED <<dicts, iterated, results, advisorLog, statuses, pc, err>>

\* validate_abbreviation_usage on the same column names and vocabularies
CallValidateAbbreviationUsage ==
    /\ call = NoCall
    /\ \E column_name \in Strings(PartAlphabet, MaxLen),
       abbreviations \in PartAbbreviations,
       class_words \in PartClassWords,
       english_name \in PartEnglishNames :
       \E order \in Orders(column_parts_of(column_name)) :
          /\ call' = [fn |-> "validate_abbreviation_usage",
                      column_name |-> column_name,
                      abbreviations |-> abbreviations,
                      class_words |-> class_words,
                      english_name |-> english_name,
                      result |-> validate_abbreviation_usage(column_name, abbreviations,
                                                             class_words, english_name,
                                                             order)]
          /\ UNCHANGED <<dicts, iterated, results, advisorLog, statuses, pc, err>>

\* English names made of the letters of the stopword "in" in both cases,
\* another letter, a space and the dotless i
CapAlphabet == {"i", "n", "N", "x", " ", DotlessI}

CallCapitalizeEnglishName ==
    /\ call = NoCall
    /\ \E english_name \in Strings(CapAlphabet, MaxLen) :
       /\ call' = [fn |-> "capitalize_english_name",
                   english_name |-> english_name,
                   result |-> capitalize_english_name(english_name)]
       /\ UNCHANGED <<dicts, iterated, results, advisorLog, statuses, pc, err>>

DataTypes == UNION {Range(class_word_type_map[c]) : c \in DOMAIN class_word_type_map}

ClassWordColumnNames ==
    {c \o suffix : c \in DOMAIN class_word_type_map \cup {s_ORD, <<"A","M">>, <<>>},
                   suffix \in {<<>>, <<"_","X">>}}
ClassWordDataTypes == DataTypes \cup {<<>>, <<"d","a","t","e">>, <<"X">>}
ClassWordEnglishNames == {s_Order_Text, upper(s_Order_Text), s_Order_Date, <<>>}

CallValidateClassWord ==
    /\ call = NoCall
    /\ \E column_name \in ClassWordColumnNames, data_type \in ClassWordDataTypes,
       english_name \in ClassWordEnglishNames :
       /\ call' = [fn |-> "validate_class_word",
                   column_name |-> column_name,
                   data_type |-> data_type,
                   english_name |-> english_name,
                   result |-> validate_class_word(column_name, data_type, english_name,
                                                  class_word_type_map)]
       /\ UNCHANGED <<dicts, iterated, results, advisorLog, statuses, pc, err>>

SampleColumnNames == {s_ORD_DTE, s_DTE_ORDER_DATE, s_CUS_IDN, s_AMT_COST, s_AMT_ORD_1}
SampleDataTypes == {dt_DECIMAL, dt_FLOAT, dt_INT, dt_BIGINT, dt_DATE, dt_VARCHAR, <<>>}
\* precision and scale as the data model has them, with the pairs precision <= scale
SamplePrecisions == {0, 1, 2}
SampleScales == {0, 2}
SampleDescriptions == {<<>>, s_rule}

CallGenerateSampleData ==
    /\ call = NoCall
    /\ \E data_type \in SampleDataTypes, precision \in SamplePrecisions,
       scale \in SampleScales, column_name \in SampleColumnNames,
       description \in SampleDescriptions, smp \in SampleOutcomes :
       /\ call' = [fn |-> "generate_sample_data",
                   data_type |-> data_type,
                   precision |-> precision,
                   scale |-> scale,
                   column_name |-> column_name,
                   description |-> description,
                   smp |-> smp,
                   result |-> generate_sample_data(data_type, precision, scale,
                                                   column_name, description, smp)]
       /\ UNCHANGED <<dicts, iterated, results, advisorLog, statuses, pc, err>>

\* rows of every combination of table name, column name, English name and type
EngineTableNames == {s_T_SLS_ORD_FACT, s_SLS_ORDER_FACT, s_t_cus_dim, s_T_ORD}
EngineColumnNames == {s_ORD_DTE, s_DTE_ORD, s_CUS_NAM, s_ORD_XYZ_AMT, s_AMT_ORD_1}
EngineEnglishNames == {s_Order_Date, s_order_date, s_Order_Text}
EngineDataTypes == {dt_DATE, dt_DECIMAL}

EngineRows ==
    {Row(StrCell(t), StrCell(c), StrCell(e), StrCell(d), IntCell(2), IntCell(0),
         StrCell(<<>>)) :
        t \in EngineTableNames, c \in EngineColumnNames, e \in EngineEnglishNames,
        d \in EngineDataTypes}

\* one row, validated under everything the two collaborators can do: the
\* verdict of the row and the outcome of the pass under each behaviour
CallValidateRow ==
    /\ call = NoCall
    /\ \E row \in EngineRows, d \in DictChoices :
       LET n == normalize_row(row)
       IN  \E order \in Orders(column_parts_of(n.column_name)) :
              LET v == verdict_of(n, d.class_words, d.abbreviations, order)
              IN  /\ call' = [fn |-> "validate_row",
                              row |-> row,
                              n |-> n,
                              v |-> v,
                              outcomes |-> {finish_row(n, v, smp, adv, rules_ok) :
                                               smp \in SampleOutcomes,
                                               adv \in AdvisorOutcomes,
                                               rules_ok \in BOOLEAN}]
                  /\ UNCHANGED <<dicts, iterated, results, advisorLog, statuses, pc, err>>

NextCalls ==
    \/ CallCheckColumnParts
    \/ CallValidateAbbreviationUsage
    \/ CallCapitalizeEnglishName
    \/ CallValidateClassWord
    \/ CallGenerateSampleData
    \/ CallValidateRow

InitCalls == Init /\ dicts = ScenarioDicts

SpecCalls == InitCalls /\ [][NextCalls]_vars

(***************************************************************************)
(* The claims.                                                             *)
(***************************************************************************)
RecordsOf(outcomes) == {o.records[1] : o \in {x \in outcomes : x.records # <<>>}}

\* the shape check as the specification words it
TableShapeFails(table_name) ==
    \/ table_name = <<>>
    \/ table_name[1] # "T"
    \/ ~\E suffix \in {<<"F","A","C","T">>, <<"D","I","M">>, <<"S","T","G">>,
                       <<"R","P","T","N","G">>} : endswith(table_name, suffix)

\* C1: for every row, Validation Status is FAIL if and only if the table name
\* fails the shape check, or the class-word/data-type check fails, or the list
\* of missing column-name tokens is not empty; otherwise it is PASS.
C1_StatusFailIffAnyCheckFails ==
    call.fn = "validate_row" =>
        LET anyFails ==
                \/ TableShapeFails(call.n.table_name)
                \/ call.v.class_word_validation.Validation_Status = FAIL
                \/ call.v.missing_parts # <<>>
        IN  /\ call.v.validation_status = (IF anyFails THEN FAIL ELSE PASS)
            /\ \A rec \in RecordsOf(call.outcomes) :
                  rec.Validation_Status = (IF anyFails THEN FAIL ELSE PASS)

\* a row that fails the shape check alone (the class word fits and no token
\* is missing) has a record, with status FAIL
C1_Witness ==
    /\ call.fn = "validate_row"
    /\ TableShapeFails(call.n.table_name)
    /\ call.v.class_word_validation.Validation_Status = PASS
    /\ call.v.missing_parts = <<>>
    /\ \E rec \in RecordsOf(call.outcomes) : rec.Validation_Status = FAIL

RowsLike(row) == {i \in DOMAIN results : iterated[i] = row}

\* C2 as stated: the scenario row (T_SLS_ORD_FACT, ORD_DTE, DATE, 'Order Date')
\* under abbreviations {ORDER:ORD, SALES:SLS} and class words {DTE} has status
\* PASS, empty suggested names and three samples formatted as dates.
C2_ScenarioPasses ==
    dicts = ScenarioDicts =>
        \A i \in RowsLike(ScenarioRow) :
            /\ results[i].Validation_Status = PASS
            /\ results[i].Suggested_Table_Name = <<>>
            /\ results[i].Suggested_Column_Name = <<>>
            /\ results[i].Sample_Data_1 = DateSample
            /\ results[i].Sample_Data_2 = DateSample
            /\ results[i].Sample_Data_3 = DateSample

CollaboratorSamples ==
    {ErrorSamples, Three(NA)} \cup {<<Example(1), Example(2), Example(3)>>}

\* C2 as amended: the scenario row has status FAIL, because the class word is
\* the first three characters, ORD, which the type map lacks: Notes is the
\* class-word issue alone, Suggested Class Word is IND, the CorrectionAdvisor
\* is requested and the suggested names are its answer or the original names,
\* and the samples are those of the sample collaborator, not rule-made dates.
C2_ScenarioFailsOnClassWord ==
    dicts = ScenarioDicts =>
        \A i \in RowsLike(ScenarioRow) :
            /\ results[i].Validation_Status = FAIL
            /\ results[i].Notes =
                   <<"Class word '">> \o s_ORD
                   \o <<"' does not match expected data type '">> \o dt_DATE
                   \o <<"'.">>
            /\ results[i].Suggested_Class_Word = IND
            /\ i \in Range(advisorLog)
            /\ results[i].Suggested_Table_Name \in {s_T_SLS_ORD_FACT, NewTable}
            /\ results[i].Suggested_Column_Name \in {s_ORD_DTE, NewColumn}
            /\ <<results[i].Sample_Data_1, results[i].Sample_Data_2,
                 results[i].Sample_Data_3>> \in CollaboratorSamples

\* the scenario row has been validated and has its record
C2_Witness ==
    /\ dicts = ScenarioDicts
    /\ \E i \in RowsLike(ScenarioRow) :
          /\ results[i].Column_Name = s_ORD_DTE
          /\ results[i].Data_Type = dt_DATE
          /\ results[i].Suggested_Table_Name = NewTable

\* C3: for a column name whose first three characters are a key C of the type
\* map, validate_class_word returns PASS iff the data type is in the map's
\* list for C; on FAIL the suggested class word is TXT if the lower-cased
\* English name contains "text" and IND otherwise, on PASS it is empty.
C3_ClassWordCheck ==
    call.fn = "validate_class_word" =>
        \A C \in DOMAIN class_word_type_map :
            startswith(call.column_name, C) =>
                /\ call.result.Validation_Status \in {PASS, FAIL}
                /\ call.result.Validation_Status = PASS
                       <=> \E k \in DOMAIN class_word_type_map[C] :
                               class_word_type_map[C][k] = call.data_type
                /\ call.result.Validation_Status = FAIL =>
                       call.result.Suggested_Class_Word =
                           (IF contains(lower(call.english_name), <<"t","e","x","t">>)
                            THEN TXT ELSE IND)
                /\ call.result.Validation_Status = PASS =>
                       call.result.Suggested_Class_Word = <<>>

\* a mismatch on a known class word with "Text" in the English name: TXT
C3_Witness ==
    /\ call.fn = "validate_class_word"
    /\ startswith(call.column_name, DTE)
    /\ call.data_type = dt_INT
    /\ call.english_name = s_Order_Text
    /\ call.result.Validation_Status = FAIL
    /\ call.result.Suggested_Class_Word = TXT

\* C4: generate_sample_data returns a list of exactly three values, without
\* raising, for every combination of its arguments and whatever the sample
\* collaborator returns.
C4_AlwaysThreeSamples ==
    call.fn = "generate_sample_data" =>
        /\ ~call.result.raised
        /\ call.result.isList
        /\ Len(call.result.items) = 3

\* "made only of decimal digits"
AllDigits(part) == part # <<>> /\ \A i \in DOMAIN part : part[i] \in Digits

ApprovedTerms(c) ==
    DOMAIN c.abbreviations \cup Range(c.abbreviations) \cup Range(c.class_words)
    \cup Range(split_ws(c.english_name))

\* C5: check_column_parts returns the empty list iff every underscore-delimited
\* part of the column name is made only of decimal digits or is an approved
\* term, and every part that is neither is in the returned list.
C5_MissingIffNotApproved ==
    call.fn = "check_column_parts" =>
        LET parts == Range(split(call.column_name, "_"))
            bad == {part \in parts : ~AllDigits(part) /\ part \notin ApprovedTerms(call)}
        IN  /\ call.result = <<>> <=> bad = {}
            /\ bad \subseteq Range(call.result)

\* C5, apart from the newline: on a column name without a newline
\* check_column_parts returns the empty list iff every part is made only of
\* decimal digits or is an approved term.
C5_HoldsWithoutNewline ==
    (call.fn = "check_column_parts" /\ NL \notin Range(call.column_name)) =>
        LET parts == Range(split(call.column_name, "_"))
            bad == {part \in parts : ~AllDigits(part) /\ part \notin ApprovedTerms(call)}
        IN  /\ call.result = <<>> <=> bad = {}
            /\ bad = Range(call.result)

\* C6 as stated: capitalize_english_name is idempotent on every string.
C6_Idempotent ==
    call.fn = "capitalize_english_name" =>
        capitalize_english_name(call.result) = call.result

\* C6 as amended: capitalize_english_name is idempotent on every string that
\* has no character whose upper case is the upper case of another lower-case
\* letter (the dotless i); every ASCII string is such a string.
C6_IdempotentOnAscii ==
    (call.fn = "capitalize_english_name" /\ DotlessI \notin Range(call.english_name)) =>
        capitalize_english_name(call.result) = call.result

\* a stopword that is not the first word is lower-cased, the first word is
\* capitalized, and the result is left as it is by a second application
C6_Witness ==
    /\ call.fn = "capitalize_english_name"
    /\ call.english_name = <<"x", " ", "i", "N">>
    /\ call.result = <<"X", " ", "i", "n">>
    /\ capitalize_english_name(call.result) = call.result

\* C7: a failure of the CorrectionAdvisor or of the sample collaborator for a
\* row (a failed call, an unusable answer, or the domain rules not being
\* readable) never aborts the batch: every well-formed row taken from df has
\* its record in results.
C7_CollaboratorFailureNeverAborts ==
    \A i \in DOMAIN iterated :
        iterated[i] \in WellFormedRows => i \in DOMAIN results

NonNumeric(cell) == cell.t = "str" /\ ~pyInt(cell).ok
NotAString(cell) == cell.t # "str"

\* C8: a row whose Precision or Scale is not numeric is processed with the
\* value 0, and a row whose Description is missing or not a string is
\* processed with the empty description; the run raises on neither.
C8_MalformedRowCoerced ==
    /\ err \notin {"int(Precision)", "int(Scale)"}
    /\ \A i \in DOMAIN results :
          /\ NonNumeric(iterated[i].Precision) => results[i].Precision = 0
          /\ NonNumeric(iterated[i].Scale) => results[i].Scale = 0
          /\ NotAString(iterated[i].Description) =>
                 results[i].Corrected_Description = <<>>

\* C9: the runs on one row that differ only in what the two collaborators do
\* give the row the same Validation Status, Notes and Suggested Class Word.
C9_VerdictIndependentOfAdvisor ==
    call.fn = "validate_row" =>
        \A r1, r2 \in RecordsOf(call.outcomes) :
            /\ r1.Validation_Status = r2.Validation_Status
            /\ r1.Notes = r2.Notes
            /\ r1.Suggested_Class_Word = r2.Suggested_Class_Word

\* two runs on a failing row whose advisor answers differ: one states a
\* verdict of its own, the other suggests new names
C9_Witness ==
    /\ call.fn = "validate_row"
    /\ \E r1, r2 \in RecordsOf(call.outcomes) :
          /\ r1.Validation_Status = FAIL
          /\ r1.Suggested_Table_Name = NewTable
          /\ r2.Suggested_Table_Name = call.n.table_name
          /\ r1.Additional_Notes # r2.Additional_Notes

\* C10: the CorrectionAdvisor is requested for a row exactly when the row's
\* status is FAIL (and never for a row whose status is not FAIL, even in a
\* pass that raises), and every PASS row has empty suggested names and the
\* note "No corrections needed.".
C10_AdvisorRequestedIffFail ==
    /\ \A i \in DOMAIN results :
          /\ results[i].Validation_Status = FAIL <=> i \in Range(advisorLog)
          /\ results[i].Validation_Status = PASS =>
                 /\ results[i].Suggested_Table_Name = <<>>
                 /\ results[i].Suggested_Column_Name = <<>>
                 /\ results[i].Additional_Notes = NoCorrections
    /\ \A i \in Range(advisorLog) : statuses[i] = FAIL

\* a run with a PASS row, not requested, and a FAIL row, requested
C10_Witness ==
    /\ Len(results) = 2
    /\ results[1].Validation_Status = PASS
    /\ results[1].Additional_Notes = NoCorrections
    /\ results[2].Validation_Status = FAIL
    /\ advisorLog = <<2>>

\* C11: tokenizing the empty column name gives the empty set of tokens, so
\* that check_column_parts returns no missing token for it and
\* validate_abbreviation_usage no unrecognized one.
C11_EmptyIdentifierNoToken ==
    (call.fn \in {"check_column_parts", "validate_abbreviation_usage"}
     /\ call.column_name = <<>>) =>
        /\ column_parts_of(call.column_name) = {}
        /\ call.fn = "check_column_parts" => call.result = <<>>
        /\ call.fn = "validate_abbreviation_usage" =>
               call.result.unrecognized_parts = <<>>

\* the reasons a row triggers, in the order class-word issue, missing or
\* incorrect tokens, unrecognized abbreviations, capitalization note
TriggeredReasons(v) ==
    (IF v.class_word_validation.Validation_Status = FAIL
     THEN <<v.class_word_validation.Class_Word_Issue>> ELSE <<>>)
    \o (IF v.filtered_missing_parts # <<>>
        THEN << <<"Column name is missing or incorrect for: ">>
                \o join(<<", ">>, v.filtered_missing_parts) >>
        ELSE <<>>)
    \o (IF v.issues.unrecognized_parts # <<>>
        THEN << <<"Unrecognized abbreviation(s): ">>
                \o join(<<", ">>, v.issues.unrecognized_parts)
                \o <<" are not in the approved list.">> >>
        ELSE <<>>)
    \o (IF v.capitalization_issue # <<>> THEN <<v.capitalization_issue>> ELSE <<>>)

\* C12: the Notes of a FAIL row that triggers one of the four reasons is the
\* triggered reasons in the fixed order, every two adjacent ones (the
\* capitalization note included) separated by a semicolon.
C12_NotesSemicolonJoined ==
    (call.fn = "validate_row" /\ call.v.validation_status = FAIL
     /\ TriggeredReasons(call.v) # <<>>) =>
        \A rec \in RecordsOf(call.outcomes) :
            rec.Notes = join(<<"; ">>, TriggeredReasons(call.v))

\* C12, apart from the capitalization note: the Notes of a FAIL row without
\* a capitalization issue that triggers one of the other three reasons is
\* these reasons in the fixed order, joined by semicolons.
C12_HoldsWithoutCapitalizationNote ==
    (call.fn = "validate_row" /\ call.v.validation_status = FAIL
     /\ call.v.capitalization_issue = <<>>
     /\ TriggeredReasons(call.v) # <<>>) =>
        \A rec \in RecordsOf(call.outcomes) :
            rec.Notes = join(<<"; ">>, TriggeredReasons(call.v))

Count(list, x) == Cardinality({i \in DOMAIN list : list[i] = x})

MissingHeader == "Column name is missing or incorrect for: "
UnrecognizedHeader == "Unrecognized abbreviation(s): "

\* the reasons of the list that begin with the given words
ReasonsHeaded(failure_reasons, header) ==
    {i \in DOMAIN failure_reasons : failure_reasons[i][1] = header}

\* C13: no token is reported under both the "Column name is missing or
\* incorrect for" reason and the "Unrecognized abbreviation(s)" reason: the
\* missing reason, when there is one, lists only tokens that are not
\* unrecognized, and a token flagged by both check_column_parts and
\* validate_abbreviation_usage is listed exactly once, in the one
\* unrecognized-abbreviation reason of the row's Notes.
C13_NoTokenReportedTwice ==
    call.fn = "validate_row" =>
        LET v == call.v
            missing == v.missing_parts
            unrecognized == v.issues.unrecognized_parts
            kept == v.filtered_missing_parts
            both == Range(missing) \cap Range(unrecognized)
            unrecognizedReason ==
                <<UnrecognizedHeader>> \o join(<<", ">>, unrecognized)
                \o <<" are not in the approved list.">>
        IN  /\ Range(kept) \cap Range(unrecognized) = {}
            /\ \A i \in ReasonsHeaded(v.failure_reasons, MissingHeader) :
                   v.failure_reasons[i] = <<MissingHeader>> \o join(<<", ">>, kept)
            /\ \A t \in both :
                   /\ Count(kept, t) = 0
                   /\ Count(unrecognized, t) = 1
                   /\ \E i \in DOMAIN v.failure_reasons :
                          /\ ReasonsHeaded(v.failure_reasons, UnrecognizedHeader) = {i}
                          /\ v.failure_reasons[i] = unrecognizedReason
                   /\ \A rec \in RecordsOf(call.outcomes) :
                          /\ Count(rec.Notes, UnrecognizedHeader) = 1
                          /\ Count(rec.Notes, MissingHeader) = 0
                          /\ contains(rec.Notes, unrecognizedReason)

\* the row of column ORD_XYZ_AMT: XYZ is flagged by both checks and the
\* row's record reports it under the unrecognized-abbreviation reason
C13_Witness ==
    /\ call.fn = "validate_row"
    /\ call.n.column_name = s_ORD_XYZ_AMT
    /\ <<"X","Y","Z">> \in Range(call.v.missing_parts)
                           \cap Range(call.v.issues.unrecognized_parts)
    /\ \E rec \in RecordsOf(call.outcomes) :
           contains(rec.Notes, <<UnrecognizedHeader, "X", "Y", "Z">>)

\* C14: a row that is FAIL only because of the table-name shape check (its
\* class-word check passes and no column-name token is missing or
\* unrecognized) has the table failure reason in its Notes, with or without
\* a capitalization issue in the English name.
C14_TableReasonInNotes ==
    (/\ call.fn = "validate_row"
     /\ TableShapeFails(call.n.table_name)
     /\ call.v.class_word_validation.Validation_Status = PASS
     /\ call.v.missing_parts = <<>>
     /\ call.v.issues.unrecognized_parts = <<>>) =>
        /\ call.v.validation_status = FAIL
        /\ \A rec \in RecordsOf(call.outcomes) : contains(rec.Notes, TableRule)

\* C14, apart from the capitalization issue: such a row whose English name
\* has no capitalization issue has the table failure reason as its Notes.
C14_HoldsWithoutCapitalizationIssue ==
    (/\ call.fn = "validate_row"
     /\ TableShapeFails(call.n.table_name)
     /\ call.v.class_word_validation.Validation_Status = PASS
     /\ call.v.missing_parts = <<>>
     /\ call.v.issues.unrecognized_parts = <<>>
     /\ call.v.capitalization_issue = <<>>) =>
        /\ call.v.validation_status = FAIL
        /\ \A rec \in RecordsOf(call.outcomes) : rec.Notes = TableRule

====
